---- MODULE Spec2Model ----
(***************************************************************************)
(* A model of the Unlambda interpreter of src/unlambda.c: the cell heap    *)
(* with its generational collector (copying young semispaces, mark-sweep   *)
(* old generation), the parser that builds the program graph, and the      *)
(* eval/apply machine of run().                                            *)
(*                                                                         *)
(* Addresses are integers, NULL is 0.  The two young arrays and the old    *)
(* chunks are ranges of addresses; where the linker puts young1 and young2 *)
(* relative to each other is not fixed by the source, so the placement is  *)
(* chosen in Init.  A write through free_ptr that leaves both arrays and   *)
(* every chunk is undefined behaviour and ends the run in pc = "ub".       *)
(***************************************************************************)
EXTENDS Integers, Sequences, FiniteSets, TLC

\* ---------------------------------------------------------------- sizes
\* The source's sizes, scaled down so that collections happen in short runs.
YOUNG_SIZE == 6
HEAP_CHUNK_SIZE == 5
AGE_MAX == 2
\* How many chunks malloc hands out before it returns NULL ("Out of memory").
MaxChunks == 6
\* The step count of a run is followed up to this many steps.
MaxSteps == 60

NULL == 0
EOF == 0 - 1

\* ----------------------------------------------------------------- tags
ExprTags ==
  {"I", "DOT", "K1", "K", "S2", "B2", "C2", "V2", "S1", "B1", "T1", "S", "V",
   "D1", "D", "CONT", "C", "E", "AT", "QUES", "PIPE", "AP"}
FrameTags == {"EVAL_RIGHT", "EVAL_RIGHT_S", "APPLY", "APPLY_T", "EXIT"}
UnaryTags == {"K1", "S1", "B1", "D1", "T1", "CONT"}
BinaryTags ==
  {"AP", "S2", "B2", "C2", "V2", "EVAL_RIGHT", "EVAL_RIGHT_S", "APPLY", "APPLY_T"}

\* A Cell.  Static storage is zero-initialised: tag I is enumerator 0.
ZeroCell ==
  [t |-> "I", ch |-> 0, age |-> 0, marked |-> FALSE, l |-> NULL, r |-> NULL]

\* ------------------------------------------------------------ addresses
\* Address 1 .. 2*YOUNG_SIZE + 2 holds the two young arrays (with room for a
\* gap between them); the old chunks follow.  heap[NULL] is never written:
\* the code paths that would dereference NULL end in pc = "ub" instead.
OldBase == 2 * YOUNG_SIZE + 3
MaxAddr == OldBase + MaxChunks * HEAP_CHUNK_SIZE - 1
Addr == 0 .. MaxAddr

\* The placements of (young1, young2): adjacent in either order, or apart.
Layouts ==
  { <<1, YOUNG_SIZE + 1>>, <<YOUNG_SIZE + 1, 1>>, <<1, YOUNG_SIZE + 2>> }

ChunkBase(k) == OldBase + k * HEAP_CHUNK_SIZE
InYoung(base, a) == a >= base /\ a < base + YOUNG_SIZE
InOld(nchunks, a) == a >= OldBase /\ a < ChunkBase(nchunks)

\* ------------------------------------------------------------ old space
\* grow(): a new chunk in front of old_area, its cells threaded onto
\* free_list.  s = [heap, free_list, old_area, status].
RECURSIVE ThreadChunk(_, _, _, _)
ThreadChunk(h, base, i, tail) ==
  IF i = HEAP_CHUNK_SIZE - 1
  THEN [h EXCEPT ![base + i].l = tail]
  ELSE ThreadChunk([h EXCEPT ![base + i].l = base + i + 1], base, i + 1, tail)

grow(s) ==
  IF s.old_area >= MaxChunks
  THEN [s EXCEPT !.status = "oom"]
  ELSE [s EXCEPT !.heap = ThreadChunk(s.heap, ChunkBase(s.old_area), 0, s.free_list),
                 !.free_list = ChunkBase(s.old_area),
                 !.old_area = s.old_area + 1]

\* allocate_from_old(t, l, r): the result is [s, c].
allocate_from_old(s0, t, l, r) ==
  LET s == IF s0.free_list = NULL THEN grow(s0) ELSE s0 IN
  IF s.status # "ok"
  THEN [s |-> s, c |-> NULL]
  ELSE LET c == s.free_list IN
       [s |-> [s EXCEPT !.free_list = s.heap[c].l,
                        !.heap = [s.heap EXCEPT ![c].t = t,
                                                ![c].age = AGE_MAX + 1,
                                                ![c].marked = FALSE,
                                                ![c].l = l,
                                                ![c].r = r]],
        c |-> c]

\* --------------------------------------------------------------- parser
\* Program text is a sequence of bytes; these are the bytes parse() tests.
ChBackquote == 96
ChHash == 35
ChNewline == 10
ChDot == 46
ChQues == 63
ChAt == 64
ChPipe == 124
ChX == 88
ChLowI == 105
ChLowK == 107
ChLowS == 115
ChLowV == 118
ChLowD == 100
ChLowC == 99
ChLowE == 101
ChLowR == 114
\* The upper-case letter of a lower-case one.
Upper(ch) == ch - 32

isspace(ch) == ch \in {32, 9, 10, 11, 12, 13}

fgetc(prog, pos) == IF pos > Len(prog) THEN EOF ELSE prog[pos]
Advance(prog, pos) == IF pos > Len(prog) THEN pos ELSE pos + 1

\* The comment loop: read up to and including '\n', or to EOF.
RECURSIVE SkipComment(_, _)
SkipComment(prog, pos) ==
  LET ch == fgetc(prog, pos) IN
  IF ch = ChNewline \/ ch = EOF
  THEN [ch |-> ch, pos |-> Advance(prog, pos)]
  ELSE SkipComment(prog, Advance(prog, pos))

\* The inner do-while of parse: the next byte that is no white space and in
\* no comment, with the position after it.
RECURSIVE NextCh(_, _)
NextCh(prog, pos) ==
  LET ch0 == fgetc(prog, pos)
      rd == IF ch0 = ChHash
            THEN SkipComment(prog, Advance(prog, pos))
            ELSE [ch |-> ch0, pos |-> Advance(prog, pos)]
  IN IF isspace(rd.ch) THEN NextCh(prog, rd.pos) ELSE rd

\* The nine shared cells, in the order parse() allocates them.
PreTags == <<"I", "K", "S", "V", "D", "C", "E", "AT", "PIPE">>

RECURSIVE AllocPre(_, _)
AllocPre(s, pre) ==
  IF Len(pre) = Len(PreTags) \/ s.status # "ok"
  THEN [s |-> s, pre |-> pre]
  ELSE LET a == allocate_from_old(s, PreTags[Len(pre) + 1], NULL, NULL)
       IN AllocPre(a.s, Append(pre, a.c))

\* Which shared cell a byte stands for (0: none).
PreIndex(ch) ==
  CASE ch \in {ChLowI, Upper(ChLowI)} -> 1
    [] ch \in {ChLowK, Upper(ChLowK)} -> 2
    [] ch \in {ChLowS, Upper(ChLowS)} -> 3
    [] ch \in {ChLowV, Upper(ChLowV)} -> 4
    [] ch \in {ChLowD, Upper(ChLowD)} -> 5
    [] ch \in {ChLowC, Upper(ChLowC)} -> 6
    [] ch \in {ChLowE, Upper(ChLowE)} -> 7
    [] ch = ChAt -> 8
    [] ch = ChPipe -> 9
    [] OTHER -> 0

\* The loop body run once: a completed application is not hung under the
\* application that waits for it.
AttachOnce(h, stack, e) ==
  IF stack = NULL
  THEN [heap |-> h, stack |-> stack, e |-> e]
  ELSE IF h[stack].l = NULL
  THEN [heap |-> [h EXCEPT ![stack].l = e], stack |-> stack, e |-> e]
  ELSE [heap |-> [h EXCEPT ![stack].r = e], stack |-> h[stack].r, e |-> stack]

\* The while (stack) loop that hangs a complete expression e under the
\* pending applications.  Result: [heap, stack, e].
RECURSIVE Attach(_, _, _)
Attach(h, stack, e) ==
  IF stack = NULL
  THEN [heap |-> h, stack |-> stack, e |-> e]
  ELSE IF h[stack].l = NULL
  THEN [heap |-> [h EXCEPT ![stack].l = e], stack |-> stack, e |-> e]
  ELSE Attach([h EXCEPT ![stack].r = e], h[stack].r, stack)

\* The outer do-while of parse.  p = [s, pre, stack, pos, e]; s.status
\* becomes "parse_error" on errexit.
RECURSIVE ParseLoop(_, _)
ParseLoop(prog, p) ==
  LET rd == NextCh(prog, p.pos)
      ch == rd.ch
      Fail == [p EXCEPT !.s.status = "parse_error"]
      Done(s1, e1) ==
        LET at == Attach(s1.heap, p.stack, e1)
            p1 == [p EXCEPT !.s = [s1 EXCEPT !.heap = at.heap],
                            !.stack = at.stack, !.e = at.e, !.pos = rd.pos]
        IN IF s1.status # "ok" THEN [p EXCEPT !.s = s1]
           ELSE IF at.stack = NULL THEN p1 ELSE ParseLoop(prog, p1)
  IN
  IF ch = ChBackquote
  THEN LET a == allocate_from_old(p.s, "AP", NULL, p.stack) IN
       IF a.s.status # "ok" THEN [p EXCEPT !.s = a.s]
       ELSE ParseLoop(prog, [p EXCEPT !.s = a.s, !.stack = a.c, !.pos = rd.pos])
  ELSE IF PreIndex(ch) # 0
  THEN Done(p.s, p.pre[PreIndex(ch)])
  ELSE IF ch \in {ChLowR, Upper(ChLowR)}
  THEN LET a == allocate_from_old(p.s, "DOT", NULL, NULL) IN
       IF a.s.status # "ok" THEN [p EXCEPT !.s = a.s]
       ELSE Done([a.s EXCEPT !.heap[a.c].ch = ChNewline], a.c)
  ELSE IF ch \in {ChDot, ChQues}
  THEN LET ch2 == fgetc(prog, rd.pos) IN
       IF ch2 = EOF THEN Fail
       ELSE LET a == allocate_from_old(p.s, IF ch = ChDot THEN "DOT" ELSE "QUES",
                                       NULL, NULL)
                p2 == [p EXCEPT !.pos = rd.pos + 1]
            IN IF a.s.status # "ok" THEN [p EXCEPT !.s = a.s]
               ELSE LET h1 == [a.s.heap EXCEPT ![a.c].ch = ch2 % 256]
                        at1 == Attach(h1, p.stack, a.c)
                        p3 == [p2 EXCEPT !.s = [a.s EXCEPT !.heap = at1.heap],
                                         !.stack = at1.stack, !.e = at1.e]
                    IN IF at1.stack = NULL THEN p3 ELSE ParseLoop(prog, p3)
  ELSE Fail

\* storage_init() followed by parse(): the store after grow(), the nine
\* shared cells, then the loop.
EmptyStore ==
  [heap |-> [a \in Addr |-> ZeroCell], free_list |-> NULL, old_area |-> 0,
   status |-> "ok"]

parse(prog) ==
  LET pre == AllocPre(grow(EmptyStore), <<>>)
  IN IF pre.s.status # "ok"
     THEN [s |-> pre.s, pre |-> pre.pre, stack |-> NULL, pos |-> 1, e |-> NULL]
     ELSE ParseLoop(prog, [s |-> pre.s, pre |-> pre.pre, stack |-> NULL,
                           pos |-> 1, e |-> NULL])

\* ------------------------------------------------------------ the state
VARIABLES
  heap,             \* every Cell, by address
  young1, young2,   \* where the two young arrays start
  old_area,         \* the number of chunks in the old_area list
  free_list, free_ptr, young_area_end, next_young_area,
  val, task, task_val, next_cont, op, current_ch,   \* run()'s registers
  pc,               \* where run() is: eval, dispatch, apply, inside gc_run, ...
  roots, gi, scan, gc_c, gc_ret,   \* gc_run: roots[], i, scan, c, the caller
  prog,             \* the program text that was parsed
  input, output,    \* what stdin still holds, what was written to stdout
  \* history, read by no step of the program:
  gc_pre,           \* the graph under the roots when gc_run was entered
  gc_major,         \* where the current gc_run has called major_gc
  gc_cells,         \* how many cells the region held when gc_run was entered
  young_oob,        \* an evaluator allocation wrote at or past young_area_end
  d1_forced,        \* how many times a D1 has been applied
  e_applied,        \* E has been applied
  captured,         \* CONT cell -> the registers when its C was applied
  reads,            \* what each getchar() so far returned
  ref,              \* what the machine without optimised closures does
  steps             \* how many steps the run has taken, up to MaxSteps

\* ---- the graph under a root vector, up to the addresses of its cells
\* The children a tag's field set names, in the order l, r.
Children(h, a) ==
  IF h[a].t \in UnaryTags THEN <<h[a].l>>
  ELSE IF h[a].t \in BinaryTags THEN <<h[a].l, h[a].r>>
  ELSE <<>>

InSeq(sq, x) == \E i \in 1 .. Len(sq) : sq[i] = x
Pos(sq, x) == IF x = NULL THEN 0 ELSE CHOOSE i \in 1 .. Len(sq) : sq[i] = x

RECURSIVE AddNew(_, _)
AddNew(order, cs) ==
  IF cs = <<>> THEN order
  ELSE AddNew(IF Head(cs) = NULL \/ InSeq(order, Head(cs))
              THEN order ELSE Append(order, Head(cs)),
              Tail(cs))

\* The cells reachable from rts in breadth-first order of first discovery.
RECURSIVE Discover(_, _, _)
Discover(h, order, i) ==
  IF i > Len(order) THEN order
  ELSE Discover(h, AddNew(order, Children(h, order[i])), i + 1)

ReachSeq(h, rts) == Discover(h, AddNew(<<>>, rts), 1)

\* Each reachable cell with its tag, its ch and its children by position in
\* the discovery order (0 for null, and for a field the tag does not use):
\* two graphs have the same Canon exactly when they are isomorphic as rooted
\* graphs, shared cells included.
Canon(h, rts) ==
  LET order == ReachSeq(h, rts) IN
  [roots |-> [i \in 1 .. Len(rts) |-> Pos(order, rts[i])],
   nodes |-> [i \in 1 .. Len(order) |->
                LET a == order[i] IN
                [t |-> h[a].t, ch |-> h[a].ch,
                 l |-> IF h[a].t \in UnaryTags \cup BinaryTags
                       THEN Pos(order, h[a].l) ELSE 0,
                 r |-> IF h[a].t \in BinaryTags THEN Pos(order, h[a].r) ELSE 0]]]

\* ------------------------------------------------------------ collector
\* g = [heap, free_ptr, free_list, old_area, status] is the part of the
\* state the collector's functions change.
Mapped(g, a) ==
  InYoung(young1, a) \/ InYoung(young2, a) \/ InOld(g.old_area, a)

\* mark(): the explicit stack is a sequence whose last element is the top;
\* MarkTop is the code from the label top to the end of the loop body.  The
\* loop has no bound of its own: w = [h, re, done] is the heap with its marks,
\* re counts the visits that reach an already marked cell through the
\* forwarding pointer of a COPIED cell, and a mark that has not emptied its
\* stack after MarkFuel visits of top (n) is one that never returns
\* (done = FALSE).
MarkFuel == 60
RECURSIVE MarkLoop(_, _, _)
RECURSIVE MarkTop(_, _, _, _)
\* A mark that follows only the l field of a two-field cell.
RECURSIVE MarkTopLeftOnly(_, _, _, _)
MarkTopLeftOnly(w, stack, c0, n) ==
  IF n >= MarkFuel THEN [w EXCEPT !.done = FALSE]
  ELSE IF c0 = NULL \/ w.h[c0].marked
  THEN MarkLoop(w, stack, n + 1)
  ELSE LET c == IF w.h[c0].t = "COPIED" THEN w.h[c0].l ELSE c0
           w1 == [w EXCEPT !.h[c].marked = TRUE]
       IN IF w1.h[c].t \in UnaryTags \cup BinaryTags
          THEN MarkTopLeftOnly(w1, stack, w1.h[c].l, n + 1)
          ELSE MarkLoop(w1, stack, n + 1)

MarkTop(w, stack, c0, n) ==
  IF n >= MarkFuel THEN [w EXCEPT !.done = FALSE]
  ELSE IF c0 = NULL \/ w.h[c0].marked
  THEN MarkLoop(w, stack, n + 1)
  ELSE LET c == IF w.h[c0].t = "COPIED" THEN w.h[c0].l ELSE c0
           w1 == [w EXCEPT !.h[c].marked = TRUE,
                           !.re = IF w.h[c].marked THEN @ + 1 ELSE @]
       IN IF w1.h[c].t \in UnaryTags
          THEN MarkTop(w1, stack, w1.h[c].l, n + 1)
          ELSE IF w1.h[c].t \in BinaryTags
          THEN MarkTop(w1, Append(stack, w1.h[c].r), w1.h[c].l, n + 1)
          ELSE MarkLoop(w1, stack, n + 1)

MarkLoop(w, stack, n) ==
  IF stack = <<>>
  THEN [w EXCEPT !.done = TRUE]
  ELSE MarkTop(w, SubSeq(stack, 1, Len(stack) - 1), stack[Len(stack)], n)

mark(h, rts) == MarkLoop([h |-> h, re |-> 0, done |-> FALSE], rts, 0)

\* The cells the sweep visits, in its order: the chunks from old_area (the
\* newest) on, each from cells[0].
SweepOrder(nchunks) ==
  [n \in 1 .. nchunks * HEAP_CHUNK_SIZE |->
     ChunkBase(nchunks - 1 - ((n - 1) \div HEAP_CHUNK_SIZE))
       + ((n - 1) % HEAP_CHUNK_SIZE)]

\* The sweep: [heap, free_list, freed].
RECURSIVE Sweep(_, _, _)
Sweep(w, order, n) ==
  IF n > Len(order)
  THEN w
  ELSE LET a == order[n] IN
       IF w.heap[a].marked
       THEN Sweep([w EXCEPT !.heap[a].marked = FALSE], order, n + 1)
       ELSE Sweep([heap |-> [w.heap EXCEPT ![a].l = w.free_list],
                   free_list |-> a, freed |-> w.freed + 1], order, n + 1)

ClearYoungMarks(h) ==
  [a \in Addr |->
     IF InYoung(young1, a) \/ InYoung(young2, a)
     THEN [h[a] EXCEPT !.marked = FALSE] ELSE h[a]]

\* A major_gc that never grows the heap after its sweep.
GrowNever(g, freed, total) == g

\* while (freed < total / 5) grow();
RECURSIVE GrowUntil(_, _, _)
GrowUntil(g, freed, total) ==
  IF g.status # "ok" \/ ~(freed < total \div 5)
  THEN g
  ELSE GrowUntil(grow(g), freed + HEAP_CHUNK_SIZE, total + HEAP_CHUNK_SIZE)

major_gc(g, rts) ==
  LET m == mark(g.heap, rts)
      w == Sweep([heap |-> m.h, free_list |-> g.free_list, freed |-> 0],
                 SweepOrder(g.old_area), 1)
  IN IF ~m.done
     THEN [g EXCEPT !.status = "hang"]
     ELSE GrowUntil([g EXCEPT !.heap = ClearYoungMarks(w.heap),
                              !.free_list = w.free_list],
                    w.freed, g.old_area * HEAP_CHUNK_SIZE)

\* A gc_run that goes on to copy_cell without looking at free_list.
MajorSkipped(g, rts) == g

\* if (!free_list) major_gc(roots, nroot);
MajorIfEmpty(g, rts) ==
  IF g.status = "ok" /\ g.free_list = NULL THEN major_gc(g, rts) ELSE g

\* A copy_cell whose promotion leaves no COPIED record in to-space, so that
\* the scan never visits the promoted cell.
CopyCellNoRecord(g, c) ==
  IF g.status # "ok" \/ c = NULL THEN [g |-> g, r |-> NULL]
  ELSE IF g.heap[c].t = "COPIED" THEN [g |-> g, r |-> g.heap[c].l]
  ELSE IF g.heap[c].age > AGE_MAX THEN [g |-> g, r |-> c]
  ELSE IF ~Mapped(g, g.free_ptr) THEN [g |-> [g EXCEPT !.status = "ub"], r |-> NULL]
  ELSE IF g.heap[c].age = AGE_MAX
  THEN IF g.free_list = NULL
       THEN [g |-> [g EXCEPT !.status = "ub"], r |-> NULL]
       ELSE LET r == g.free_list
                h2 == [g.heap EXCEPT ![r] = g.heap[c]]
                h3 == [h2 EXCEPT ![r].age = (h2[r].age + 1) % 256]
                h4 == [h3 EXCEPT ![c].t = "COPIED", ![c].l = r]
            IN [g |-> [g EXCEPT !.heap = h4, !.free_list = g.heap[r].l], r |-> r]
  ELSE LET r == g.free_ptr
           h2 == [g.heap EXCEPT ![r] = g.heap[c]]
           h3 == [h2 EXCEPT ![r].age = (h2[r].age + 1) % 256]
           h4 == [h3 EXCEPT ![c].t = "COPIED", ![c].l = r]
       IN [g |-> [g EXCEPT !.heap = h4, !.free_ptr = g.free_ptr + 1], r |-> r]

\* copy_cell(c): the result is [g, r].  Taking a cell off an empty free_list
\* and writing through a free_ptr that has left the arrays are undefined.
copy_cell(g, c) ==
  IF g.status # "ok" \/ c = NULL THEN [g |-> g, r |-> NULL]
  ELSE IF g.heap[c].t = "COPIED" THEN [g |-> g, r |-> g.heap[c].l]
  ELSE IF g.heap[c].age > AGE_MAX THEN [g |-> g, r |-> c]
  ELSE IF ~Mapped(g, g.free_ptr) THEN [g |-> [g EXCEPT !.status = "ub"], r |-> NULL]
  ELSE IF g.heap[c].age = AGE_MAX
  THEN IF g.free_list = NULL
       THEN [g |-> [g EXCEPT !.status = "ub"], r |-> NULL]
       ELSE LET r == g.free_list
                h1 == [g.heap EXCEPT ![g.free_ptr].t = "COPIED",
                                     ![g.free_ptr].l = r]
                h2 == [h1 EXCEPT ![r] = h1[c]]
                h3 == [h2 EXCEPT ![r].age = (h2[r].age + 1) % 256]
                h4 == [h3 EXCEPT ![c].t = "COPIED", ![c].l = r]
            IN [g |-> [g EXCEPT !.heap = h4, !.free_list = g.heap[r].l,
                                !.free_ptr = g.free_ptr + 1],
                r |-> r]
  ELSE LET r == g.free_ptr
           h2 == [g.heap EXCEPT ![r] = g.heap[c]]
           h3 == [h2 EXCEPT ![r].age = (h2[r].age + 1) % 256]
           h4 == [h3 EXCEPT ![c].t = "COPIED", ![c].l = r]
       IN [g |-> [g EXCEPT !.heap = h4, !.free_ptr = g.free_ptr + 1], r |-> r]

\* ------------------------------------------------------------ evaluator
\* m is the store g together with run()'s cell registers.
Cur ==
  [heap |-> heap, free_ptr |-> free_ptr, free_list |-> free_list,
   old_area |-> old_area, status |-> "ok", oob |-> young_oob,
   val |-> val, task |-> task, task_val |-> task_val,
   next_cont |-> next_cont, op |-> op]

Tag(m, a) == IF a = NULL THEN "NULL" ELSE m.heap[a].t

\* new_cell / new_cell1 / new_cell0: the result is [m, c].  new_cell1 leaves
\* r, and new_cell0 leaves l and r, as the cell last held them.
\* *free_ptr is written wherever free_ptr points: Bump is the machine with the
\* write recorded as outside the active region when free_ptr has reached
\* young_area_end.
Bump(m) == [m EXCEPT !.oob = @ \/ m.free_ptr >= young_area_end]

new_cell(m, t, l, r) ==
  IF m.status # "ok" THEN [m |-> m, c |-> NULL]
  ELSE IF ~Mapped(m, m.free_ptr)
  THEN [m |-> [Bump(m) EXCEPT !.status = "ub"], c |-> NULL]
  ELSE [m |-> [Bump(m) EXCEPT !.heap = [@ EXCEPT ![m.free_ptr].t = t,
                                                 ![m.free_ptr].age = 0,
                                                 ![m.free_ptr].l = l,
                                                 ![m.free_ptr].r = r],
                              !.free_ptr = @ + 1],
        c |-> m.free_ptr]

new_cell1(m, t, l) ==
  IF m.status # "ok" THEN [m |-> m, c |-> NULL]
  ELSE IF ~Mapped(m, m.free_ptr)
  THEN [m |-> [Bump(m) EXCEPT !.status = "ub"], c |-> NULL]
  ELSE [m |-> [Bump(m) EXCEPT !.heap = [@ EXCEPT ![m.free_ptr].t = t,
                                                 ![m.free_ptr].age = 0,
                                                 ![m.free_ptr].l = l],
                              !.free_ptr = @ + 1],
        c |-> m.free_ptr]

new_cell0(m, t) ==
  IF m.status # "ok" THEN [m |-> m, c |-> NULL]
  ELSE IF ~Mapped(m, m.free_ptr)
  THEN [m |-> [Bump(m) EXCEPT !.status = "ub"], c |-> NULL]
  ELSE [m |-> [Bump(m) EXCEPT !.heap = [@ EXCEPT ![m.free_ptr].t = t,
                                                 ![m.free_ptr].age = 0],
                              !.free_ptr = @ + 1],
        c |-> m.free_ptr]

\* PUSHCONT(t, v): the macro's v is an expression over the registers, read
\* after new_cell has run.  v is given as <<reg>> (the register), <<reg, f>>
\* (reg->f) or <<"cell", c>> (a local that holds the cell c); Rd reads it in
\* the machine x.
Rd(x, v) ==
  IF Len(v) = 1 THEN x[v[1]]
  ELSE IF v[1] = "cell" THEN v[2]
  ELSE x.heap[x[v[1]]][v[2]]

PUSHCONT(m, t, v) ==
  LET a == new_cell(m, m.task, m.next_cont, m.task_val)
      x == [a.m EXCEPT !.next_cont = a.c, !.task = t]
  IN [x EXCEPT !.task_val = Rd(x, v)]

POPCONT(m) ==
  IF m.status # "ok" THEN m
  ELSE IF m.next_cont = NULL THEN [m EXCEPT !.status = "ub"]
  ELSE [m EXCEPT !.task = m.heap[m.next_cont].t,
                 !.task_val = m.heap[m.next_cont].r,
                 !.next_cont = m.heap[m.next_cont].l]

\* val = c for a cell just allocated (a.c), in the machine a.m.
WithVal(a) == [a.m EXCEPT !.val = a.c]

\* The step's result m becomes the state; run() goes on at npc unless the
\* step ended the run.
Commit(m, npc) ==
  /\ heap' = m.heap
  /\ free_ptr' = m.free_ptr
  /\ free_list' = m.free_list
  /\ old_area' = m.old_area
  /\ val' = m.val
  /\ task' = m.task
  /\ task_val' = m.task_val
  /\ next_cont' = m.next_cont
  /\ op' = m.op
  /\ young_oob' = m.oob
  /\ pc' = IF m.status = "ok" THEN npc ELSE m.status

gcvars == <<roots, gi, scan, gc_c, gc_ret>>
iovars == <<current_ch, input, output>>
fixed == <<young1, young2, prog>>
hist == <<gc_pre, gc_major, gc_cells>>
runhist == <<d1_forced, e_applied, captured, reads, ref>>
youngvars == <<young_area_end, next_young_area>>
silent == <<gcvars, iovars, fixed, youngvars, hist, runhist>>

\* One more step of the run has been taken; the count stops at MaxSteps.
Tick == steps' = IF steps < MaxSteps THEN steps + 1 ELSE steps

\* A dispatch of EVAL_RIGHT that would push the frame held in the registers
\* before it evaluates the operand.
DispatchEvalRightPush ==
  /\ pc = "dispatch" /\ task = "EVAL_RIGHT" /\ val # NULL
  /\ IF heap[val].t = "D"
     THEN Commit(POPCONT([Cur EXCEPT !.op = val, !.val = task_val]), "apply")
     ELSE Commit([PUSHCONT(Cur, "APPLY", <<"val">>) EXCEPT !.val = task_val], "eval")
  /\ UNCHANGED silent
  /\ Tick

\* ---- dispatch: switch (task)
DispatchEvalRight ==
  /\ pc = "dispatch" /\ task = "EVAL_RIGHT" /\ val # NULL
  /\ IF heap[val].t = "D"
     THEN Commit(POPCONT([Cur EXCEPT !.op = val, !.val = task_val]), "apply")
     ELSE Commit([Cur EXCEPT !.task = "APPLY", !.task_val = val, !.val = task_val],
                 "eval")
  /\ UNCHANGED silent
  /\ Tick

DispatchEvalRightS ==
  /\ pc = "dispatch" /\ task = "EVAL_RIGHT_S" /\ val # NULL /\ task_val # NULL
  /\ IF heap[val].t = "D"
     THEN Commit(POPCONT([Cur EXCEPT !.op = val, !.val = task_val]), "apply")
     ELSE Commit([Cur EXCEPT !.task = "APPLY", !.task_val = val,
                             !.op = heap[task_val].l, !.val = heap[task_val].r],
                 "apply")
  /\ UNCHANGED silent
  /\ Tick

DispatchApply ==
  /\ pc = "dispatch" /\ task = "APPLY"
  /\ Commit(POPCONT([Cur EXCEPT !.op = task_val]), "apply")
  /\ UNCHANGED silent
  /\ Tick

DispatchApplyT ==
  /\ pc = "dispatch" /\ task = "APPLY_T"
  /\ Commit(POPCONT([Cur EXCEPT !.op = val, !.val = task_val]), "apply")
  /\ UNCHANGED silent
  /\ Tick

DispatchExit ==
  /\ pc = "dispatch" /\ task = "EXIT"
  /\ pc' = "done"
  /\ UNCHANGED <<heap, free_ptr, free_list, old_area, val, task, task_val,
                 next_cont, op, young_oob, silent>>
  /\ Tick

\* ---- eval: while (val->t == AP)
NeedGcEval == free_ptr >= young_area_end
AtEvalPush == pc \in (IF NeedGcEval THEN {"eval_push"} ELSE {"eval", "eval_push"})

EvalAP ==
  /\ AtEvalPush /\ Tag(Cur, val) = "AP"
  /\ LET m == PUSHCONT(Cur, "EVAL_RIGHT", <<"val", "r">>)
     IN Commit([m EXCEPT !.val = m.heap[m.val].l], "eval")
  /\ UNCHANGED silent
  /\ Tick

EvalValue ==
  /\ pc = "eval" /\ val # NULL /\ heap[val].t # "AP"
  /\ pc' = "dispatch"
  /\ UNCHANGED <<heap, free_ptr, free_list, old_area, val, task, task_val,
                 next_cont, op, young_oob, silent>>
  /\ Tick

\* ---- apply: switch (op->t)
NeedGcApply == free_ptr + 1 >= young_area_end
AtApply == pc \in (IF NeedGcApply THEN {"apply_sw"} ELSE {"apply", "apply_sw"})
Applying(t) == AtApply /\ Tag(Cur, op) = t /\ val # NULL


ApplyI ==
  /\ Applying("I")
  /\ Commit(Cur, "dispatch")
  /\ UNCHANGED silent
  /\ Tick

ApplyDOT ==
  /\ Applying("DOT")
  /\ output' = Append(output, heap[op].ch)
  /\ Commit(Cur, "dispatch")
  /\ UNCHANGED <<gcvars, current_ch, input, fixed, youngvars, hist, runhist>>
  /\ Tick

ApplyK1 ==
  /\ Applying("K1")
  /\ Commit([Cur EXCEPT !.val = heap[op].l], "dispatch")
  /\ UNCHANGED silent
  /\ Tick

ApplyK ==
  /\ Applying("K")
  /\ Commit(WithVal(new_cell1(Cur, "K1", val)), "dispatch")
  /\ UNCHANGED silent
  /\ Tick

ApplyS2 ==
  /\ Applying("S2")
  /\ LET e2 == new_cell(Cur, "AP", heap[op].r, val)
         m == PUSHCONT(e2.m, "EVAL_RIGHT_S", <<"cell", e2.c>>)
     IN Commit([m EXCEPT !.op = m.heap[m.op].l], "apply")
  /\ UNCHANGED silent
  /\ Tick

ApplyB2 ==
  /\ Applying("B2")
  /\ IF Tag(Cur, heap[op].l) = "D"
     THEN LET e2 == new_cell(Cur, "AP", heap[op].r, val)
          IN Commit(WithVal(new_cell1(e2.m, "D1", e2.c)), "dispatch")
     ELSE LET m == PUSHCONT(Cur, "APPLY", <<"op", "l">>)
          IN Commit([m EXCEPT !.op = m.heap[m.op].r], "apply")
  /\ UNCHANGED silent
  /\ Tick

ApplyC2 ==
  /\ Applying("C2")
  /\ LET m == PUSHCONT(Cur, "APPLY_T", <<"op", "r">>)
     IN Commit([m EXCEPT !.op = m.heap[m.op].l], "apply")
  /\ UNCHANGED silent
  /\ Tick

ApplyV2 ==
  /\ Applying("V2")
  /\ LET v == heap[op].l
         m == PUSHCONT(Cur, "APPLY_T", <<"op", "r">>)
     IN Commit([m EXCEPT !.op = m.val, !.val = v], "apply")
  /\ UNCHANGED silent
  /\ Tick

\* val = (val->t == K1) ? (op->l->t == I ? T1 : op->l->t == T1 ? V2 : C2) : S2
S1Result(m) ==
  IF m.heap[m.val].t = "K1"
  THEN IF Tag(m, m.heap[m.op].l) = "I"
       THEN new_cell1(m, "T1", m.heap[m.val].l)
       ELSE IF Tag(m, m.heap[m.op].l) = "T1"
       THEN new_cell(m, "V2", m.heap[m.heap[m.op].l].l, m.heap[m.val].l)
       ELSE new_cell(m, "C2", m.heap[m.op].l, m.heap[m.val].l)
  ELSE new_cell(m, "S2", m.heap[m.op].l, m.val)

ApplyS1 ==
  /\ Applying("S1")
  /\ Commit(WithVal(S1Result(Cur)), "dispatch")
  /\ UNCHANGED silent
  /\ Tick

ApplyB1 ==
  /\ Applying("B1")
  /\ Commit(WithVal(new_cell(Cur, "B2", heap[op].l, val)), "dispatch")
  /\ UNCHANGED silent
  /\ Tick

ApplyT1 ==
  /\ Applying("T1")
  /\ Commit([Cur EXCEPT !.op = val, !.val = heap[op].l], "apply")
  /\ UNCHANGED silent
  /\ Tick

\* val = (val->t == K1) ? new_cell1(B1, val->l) : new_cell1(S1, val)
SResult(m) ==
  IF m.heap[m.val].t = "K1"
  THEN new_cell1(m, "B1", m.heap[m.val].l)
  ELSE new_cell1(m, "S1", m.val)

ApplyS ==
  /\ Applying("S")
  /\ Commit(WithVal(SResult(Cur)), "dispatch")
  /\ UNCHANGED silent
  /\ Tick

ApplyV ==
  /\ Applying("V")
  /\ Commit([Cur EXCEPT !.val = op], "dispatch")
  /\ UNCHANGED silent
  /\ Tick

ApplyD1 ==
  /\ Applying("D1")
  /\ LET m == PUSHCONT(Cur, "APPLY_T", <<"val">>)
     IN Commit([m EXCEPT !.val = m.heap[m.op].l], "eval")
  /\ d1_forced' = d1_forced + 1
  /\ UNCHANGED <<gcvars, iovars, fixed, youngvars, hist, e_applied, captured,
                 reads, ref>>
  /\ Tick

\* D evaluating its operand at once instead of wrapping it.
ApplyDEager ==
  /\ Applying("D")
  /\ Commit(Cur, "eval")
  /\ UNCHANGED silent
  /\ Tick

ApplyD ==
  /\ Applying("D")
  /\ Commit(WithVal(new_cell1(Cur, "D1", val)), "dispatch")
  /\ UNCHANGED silent
  /\ Tick

\* CONT putting current_ch back to what run() started with.
ApplyCONTResetsCh ==
  /\ Applying("CONT")
  /\ Commit(POPCONT([Cur EXCEPT !.next_cont = heap[op].l]), "dispatch")
  /\ captured' = IF op \in DOMAIN captured
                 THEN [captured EXCEPT ![op].n = @ + 1] ELSE captured
  /\ current_ch' = EOF
  /\ UNCHANGED <<gcvars, input, output, fixed, youngvars, hist, d1_forced,
                 e_applied, reads, ref>>
  /\ Tick

ApplyCONT ==
  /\ Applying("CONT")
  /\ Commit(POPCONT([Cur EXCEPT !.next_cont = heap[op].l]), "dispatch")
  /\ captured' = IF op \in DOMAIN captured
                 THEN [captured EXCEPT ![op].n = @ + 1] ELSE captured
  /\ UNCHANGED <<gcvars, iovars, fixed, youngvars, hist, d1_forced, e_applied,
                 reads, ref>>
  /\ Tick


ApplyC ==
  /\ Applying("C")
  /\ LET m == PUSHCONT(Cur, "APPLY", <<"val">>)
     IN Commit(WithVal(new_cell1(m, "CONT", m.next_cont)), "dispatch")
  /\ captured' = IF pc' = "dispatch"
                 THEN [a \in DOMAIN captured \cup {val'} |->
                         IF a = val'
                         THEN [task |-> task,
                               k |-> Canon(heap, <<task_val, next_cont>>),
                               n |-> 0]
                         ELSE captured[a]]
                 ELSE captured
  /\ UNCHANGED <<gcvars, iovars, fixed, youngvars, hist, d1_forced, e_applied,
                 reads, ref>>
  /\ Tick

\* E without task = EXIT: the pending frame is dispatched as usual.
ApplyEContinues ==
  /\ Applying("E")
  /\ Commit(Cur, "dispatch")
  /\ e_applied' = TRUE
  /\ UNCHANGED <<gcvars, iovars, fixed, youngvars, hist, d1_forced, captured,
                 reads, ref>>
  /\ Tick

ApplyE ==
  /\ Applying("E")
  /\ Commit([Cur EXCEPT !.task = "EXIT"], "dispatch")
  /\ e_applied' = TRUE
  /\ UNCHANGED <<gcvars, iovars, fixed, youngvars, hist, d1_forced, captured,
                 reads, ref>>
  /\ Tick

\* getchar(): the next byte of stdin, or EOF.
getchar == IF input = <<>> THEN EOF ELSE Head(input)

ApplyAT ==
  /\ Applying("AT")
  /\ current_ch' = getchar
  /\ input' = IF input = <<>> THEN input ELSE Tail(input)
  /\ LET m == PUSHCONT(Cur, "APPLY", <<"val">>)
     IN Commit(WithVal(new_cell0(m, IF current_ch' = EOF THEN "V" ELSE "I")),
               "dispatch")
  /\ reads' = Append(reads, getchar)
  /\ UNCHANGED <<gcvars, output, fixed, youngvars, hist, d1_forced, e_applied,
                 captured, ref>>
  /\ Tick

\* current_ch == op->ch compares an int with a uint8_t promoted to int.
QuesTag(cur, ch) == IF cur = ch THEN "I" ELSE "V"

ApplyQUES ==
  /\ Applying("QUES")
  /\ LET m == PUSHCONT(Cur, "APPLY", <<"val">>)
     IN Commit(WithVal(new_cell0(m, QuesTag(current_ch, m.heap[m.op].ch))),
               "dispatch")
  /\ UNCHANGED silent
  /\ Tick

\* val->ch = current_ch stores an int into a uint8_t.
PipeCell(m, cur) ==
  LET a == new_cell0(m, IF cur = EOF THEN "V" ELSE "DOT")
  IN IF a.m.status # "ok" THEN a
     ELSE [a EXCEPT !.m.heap[a.c].ch = cur % 256]

ApplyPIPE ==
  /\ Applying("PIPE")
  /\ LET m == PUSHCONT(Cur, "APPLY", <<"val">>)
     IN Commit(WithVal(PipeCell(m, current_ch)), "dispatch")
  /\ UNCHANGED silent
  /\ Tick

\* ---- gc_run, one loop iteration per step
regs == <<val, task, task_val, next_cont, op>>

\* Cell* scan = free_ptr = next_young_area; the regions swap.
GcEnter(rts, ret) ==
  /\ roots' = rts
  /\ gi' = 0
  /\ scan' = next_young_area
  /\ free_ptr' = next_young_area
  /\ next_young_area' = young_area_end - YOUNG_SIZE
  /\ young_area_end' = next_young_area + YOUNG_SIZE
  /\ gc_ret' = ret
  /\ pc' = "gc_roots"
  /\ gc_pre' = Canon(heap, rts)
  /\ gc_major' = {}
  /\ gc_cells' = free_ptr - (young_area_end - YOUNG_SIZE)
  /\ UNCHANGED <<heap, free_list, old_area, regs, gc_c, iovars, fixed, young_oob,
                 runhist>>

GcFromEval ==
  /\ pc = "eval" /\ Tag(Cur, val) = "AP" /\ NeedGcEval
  /\ GcEnter(<<val, task_val, next_cont>>, "eval_push")
  /\ Tick

GcFromApply ==
  /\ pc = "apply" /\ NeedGcApply
  /\ GcEnter(<<val, task_val, next_cont, op>>, "apply_sw")
  /\ Tick

\* for (i = 0; i < nroot; i++)
GcRoot ==
  /\ pc = "gc_roots" /\ gi < Len(roots)
  /\ LET g == MajorIfEmpty(Cur, roots)
         a == IF roots[gi + 1] # NULL
              THEN copy_cell(g, roots[gi + 1])
              ELSE [g |-> g, r |-> NULL]
     IN /\ roots' = [roots EXCEPT ![gi + 1] = a.r]
        /\ Commit(a.g, IF gi + 1 = Len(roots) THEN "gc_scan" ELSE "gc_roots")
  /\ gi' = gi + 1
  /\ gc_major' = IF free_list = NULL THEN gc_major \cup {"root"} ELSE gc_major
  /\ UNCHANGED <<scan, gc_c, gc_ret, iovars, fixed, youngvars, gc_pre, gc_cells, runhist>>
  /\ Tick

\* The cell a scan step works on: Cell* c = scan; if (c->t == COPIED) c = c->l;
ScanCell == IF heap[scan].t = "COPIED" THEN heap[scan].l ELSE scan

\* while (scan < free_ptr): the body up to c->l = copy_cell(c->l)
GcScan ==
  /\ pc = "gc_scan" /\ scan < free_ptr
  /\ Tag(Cur, ScanCell) \notin {"NULL", "COPIED"}
  /\ LET g == MajorIfEmpty(Cur, roots)
         c == ScanCell
         a == copy_cell(g, g.heap[c].l)
         g2 == IF a.g.status = "ok" THEN [a.g EXCEPT !.heap[c].l = a.r] ELSE a.g
     IN IF g.heap[c].t \in UnaryTags
        THEN Commit(g2, "gc_scan") /\ scan' = scan + 1 /\ UNCHANGED gc_c
        ELSE IF g.heap[c].t \in BinaryTags
        THEN Commit(g2, "gc_scan_r") /\ gc_c' = c /\ UNCHANGED scan
        ELSE Commit(g, "gc_scan") /\ scan' = scan + 1 /\ UNCHANGED gc_c
  /\ gc_major' = IF free_list = NULL THEN gc_major \cup {"scan"} ELSE gc_major
  /\ UNCHANGED <<roots, gi, gc_ret, iovars, fixed, youngvars, gc_pre, gc_cells, runhist>>
  /\ Tick


\* if (!free_list) major_gc(roots, nroot); c->r = copy_cell(c->r); scan++
GcScanR ==
  /\ pc = "gc_scan_r"
  /\ LET g == MajorIfEmpty(Cur, roots)
         a == copy_cell(g, g.heap[gc_c].r)
     IN Commit(IF a.g.status = "ok" THEN [a.g EXCEPT !.heap[gc_c].r = a.r] ELSE a.g,
               "gc_scan")
  /\ scan' = scan + 1
  /\ gc_major' = IF free_list = NULL THEN gc_major \cup {"scan_r"} ELSE gc_major
  /\ UNCHANGED <<roots, gi, gc_c, gc_ret, iovars, fixed, youngvars, gc_pre,
                 gc_cells, runhist>>
  /\ Tick

\* Where the collector left the cell that was at a, and the captured
\* continuations that are still reachable, under their new addresses.
Fwd(a) == IF heap[a].t = "COPIED" THEN heap[a].l ELSE a
Relocated ==
  LET live == {b \in {Fwd(a) : a \in DOMAIN captured} :
                 b # NULL /\ heap[b].t = "CONT" /\ InSeq(ReachSeq(heap, roots), b)}
  IN [b \in live |-> captured[CHOOSE a \in DOMAIN captured : Fwd(a) = b]]

\* gc_run returns; the caller reads the registers back from roots[].
GcReturn ==
  /\ pc = "gc_scan" /\ scan >= free_ptr
  /\ val' = roots[1]
  /\ task_val' = roots[2]
  /\ next_cont' = roots[3]
  /\ op' = IF Len(roots) = 4 THEN roots[4] ELSE op
  /\ pc' = gc_ret
  /\ captured' = Relocated
  /\ UNCHANGED <<heap, free_ptr, free_list, old_area, task, gcvars, iovars,
                 fixed, youngvars, hist, young_oob, d1_forced, e_applied,
                 reads, ref>>
  /\ Tick

\* ---- the paths that end the run with an error
\* errexit("[BUG] ...") in the scan and at the default of either switch
\* ("bug"), and the reads through a null pointer that no case guards ("ub").
AbortOutcome ==
  CASE pc = "gc_scan" /\ scan < free_ptr /\ Tag(Cur, ScanCell) = "COPIED" -> "bug"
    [] pc = "gc_scan" /\ scan < free_ptr /\ Tag(Cur, ScanCell) = "NULL" -> "ub"
    [] pc = "dispatch" /\ task \notin FrameTags -> "bug"
    [] pc = "dispatch" /\ task \in {"EVAL_RIGHT", "EVAL_RIGHT_S"} /\ val = NULL -> "ub"
    [] pc = "dispatch" /\ task = "EVAL_RIGHT_S" /\ task_val = NULL -> "ub"
    [] pc = "eval" /\ val = NULL -> "ub"
    [] AtApply /\ op = NULL -> "ub"
    [] AtApply /\ Tag(Cur, op) \notin (ExprTags \ {"AP"}) -> "bug"
    [] AtApply /\ val = NULL -> "ub"
    [] OTHER -> "none"

Abort ==
  /\ AbortOutcome # "none"
  /\ pc' = AbortOutcome
  /\ UNCHANGED <<heap, free_ptr, free_list, old_area, regs, gcvars, iovars,
                 fixed, youngvars, hist, young_oob, runhist>>
  /\ Tick

\* ------------------------------------------------- the reference machine
\* run() over terms instead of cells, with the cases S and S1 building S1 and
\* S2 only: no B1, T1, B2, C2 or V2 is ever made.  A term is <<tag>>,
\* <<tag, ch>> (DOT, QUES), <<tag, l>> or <<tag, l, r>>; a continuation chain
\* is <<>> or <<task, task_val, chain>>.
RefFuel == 400

RECURSIVE TermOf(_, _)
TermOf(h, a) ==
  IF h[a].t = "AP" THEN <<"AP", TermOf(h, h[a].l), TermOf(h, h[a].r)>>
  ELSE IF h[a].t \in {"DOT", "QUES"} THEN <<h[a].t, h[a].ch>>
  ELSE <<h[a].t>>

RefPush(r, t, v) ==
  [r EXCEPT !.next = <<r.task, r.task_val, r.next>>, !.task = t, !.task_val = v]

RefPop(r) ==
  IF r.next = <<>> THEN [r EXCEPT !.pc = "ub"]
  ELSE [r EXCEPT !.task = r.next[1], !.task_val = r.next[2], !.next = r.next[3]]

RefGoto(r, npc) == IF r.pc = "ub" THEN r ELSE [r EXCEPT !.pc = npc]

RefEval(r) ==
  IF r.val[1] = "AP"
  THEN [RefPush(r, "EVAL_RIGHT", r.val[3]) EXCEPT !.val = r.val[2]]
  ELSE [r EXCEPT !.pc = "dispatch"]

RefDispatch(r) ==
  CASE r.task = "EVAL_RIGHT" ->
         IF r.val[1] = "D"
         THEN RefGoto(RefPop([r EXCEPT !.op = r.val, !.val = r.task_val]), "apply")
         ELSE [r EXCEPT !.task = "APPLY", !.task_val = r.val, !.val = r.task_val,
                        !.pc = "eval"]
    [] r.task = "EVAL_RIGHT_S" ->
         IF r.val[1] = "D"
         THEN RefGoto(RefPop([r EXCEPT !.op = r.val, !.val = r.task_val]), "apply")
         ELSE [r EXCEPT !.task = "APPLY", !.task_val = r.val,
                        !.op = r.task_val[2], !.val = r.task_val[3],
                        !.pc = "apply"]
    [] r.task = "APPLY" ->
         RefGoto(RefPop([r EXCEPT !.op = r.task_val]), "apply")
    [] r.task = "APPLY_T" ->
         RefGoto(RefPop([r EXCEPT !.op = r.val, !.val = r.task_val]), "apply")
    [] OTHER -> [r EXCEPT !.pc = "done"]

RefApply(r) ==
  LET t == r.op[1]
      ch == IF r.input = <<>> THEN EOF ELSE Head(r.input)
      Ret(x) == RefGoto(x, "dispatch")
  IN
  CASE t = "I" -> Ret(r)
    [] t = "DOT" -> Ret([r EXCEPT !.output = Append(@, r.op[2])])
    [] t = "K1" -> Ret([r EXCEPT !.val = r.op[2]])
    [] t = "K" -> Ret([r EXCEPT !.val = <<"K1", r.val>>])
    [] t = "S" -> Ret([r EXCEPT !.val = <<"S1", r.val>>])
    [] t = "S1" -> Ret([r EXCEPT !.val = <<"S2", r.op[2], r.val>>])
    [] t = "S2" ->
         [RefPush(r, "EVAL_RIGHT_S", <<"AP", r.op[3], r.val>>) EXCEPT !.op = r.op[2]]
    [] t = "V" -> Ret([r EXCEPT !.val = r.op])
    [] t = "D1" ->
         [RefPush(r, "APPLY_T", r.val) EXCEPT !.val = r.op[2], !.pc = "eval"]
    [] t = "D" -> Ret([r EXCEPT !.val = <<"D1", r.val>>])
    [] t = "CONT" -> Ret(RefPop([r EXCEPT !.next = r.op[2]]))
    [] t = "C" ->
         LET m == RefPush(r, "APPLY", r.val)
         IN Ret([m EXCEPT !.val = <<"CONT", m.next>>])
    [] t = "E" -> Ret([r EXCEPT !.task = "EXIT"])
    [] t = "AT" ->
         Ret([RefPush(r, "APPLY", r.val) EXCEPT
                !.val = IF ch = EOF THEN <<"V">> ELSE <<"I">>,
                !.current_ch = ch,
                !.reads = Append(@, ch),
                !.input = IF r.input = <<>> THEN r.input ELSE Tail(r.input)])
    [] t = "QUES" ->
         Ret([RefPush(r, "APPLY", r.val) EXCEPT
                !.val = IF r.current_ch = r.op[2] THEN <<"I">> ELSE <<"V">>])
    [] t = "PIPE" ->
         Ret([RefPush(r, "APPLY", r.val) EXCEPT
                !.val = IF r.current_ch = EOF THEN <<"V">>
                        ELSE <<"DOT", r.current_ch>>])
    [] OTHER -> [r EXCEPT !.pc = "bug"]

RefStep(r) ==
  CASE r.pc = "eval" -> RefEval(r)
    [] r.pc = "dispatch" -> RefDispatch(r)
    [] r.pc = "apply" -> RefApply(r)
    [] OTHER -> r

RECURSIVE RefRun(_, _)
RefRun(r, fuel) ==
  IF fuel = 0 \/ r.pc \notin {"eval", "dispatch", "apply"} THEN r
  ELSE RefRun(RefStep(r), fuel - 1)

\* What the reference machine does with the parsed program p on input inp:
\* how it ends ("eval", "dispatch" or "apply" when RefFuel steps were not
\* enough), what it wrote and what its getchar() calls returned.
RefResult(p, inp) ==
  IF p.s.status # "ok" THEN [pc |-> p.s.status, output |-> <<>>, reads |-> <<>>]
  ELSE LET r == RefRun([val |-> TermOf(p.s.heap, p.e), task |-> "EXIT",
                        task_val |-> <<"NULL">>, next |-> <<>>,
                        op |-> <<"NULL">>, current_ch |-> EOF, input |-> inp,
                        output |-> <<>>, reads |-> <<>>, pc |-> "eval"],
                       RefFuel)
       IN [pc |-> r.pc, output |-> r.output, reads |-> r.reads]

\* ------------------------------------------------------------- programs
\* PROGRAMS-BEGIN
\* `r`d`.Xi
P_r_d_Xi ==
  <<ChBackquote, ChLowR, ChBackquote, ChLowD, ChBackquote, ChDot, ChX,
  ChLowI>>
\* ``d`.Xii
P_force ==
  <<ChBackquote, ChBackquote, ChLowD, ChBackquote, ChDot, ChX, ChLowI,
  ChLowI>>
\* ```skki
P_skk ==
  <<ChBackquote, ChBackquote, ChBackquote, ChLowS, ChLowK, ChLowK, ChLowI>>
\* ``cir
P_cir ==
  <<ChBackquote, ChBackquote, ChLowC, ChLowI, ChLowR>>
\* `.X`ei
P_exit ==
  <<ChBackquote, ChDot, ChX, ChBackquote, ChLowE, ChLowI>>
\* `ie
P_ie ==
  <<ChBackquote, ChLowI, ChLowE>>
\* ``vi.X
P_v ==
  <<ChBackquote, ChBackquote, ChLowV, ChLowI, ChDot, ChX>>
\* ``k.Xi
P_k1 ==
  <<ChBackquote, ChBackquote, ChLowK, ChDot, ChX, ChLowI>>
\* ```s`k.Xii
P_b2 ==
  <<ChBackquote, ChBackquote, ChBackquote, ChLowS, ChBackquote, ChLowK,
  ChDot, ChX, ChLowI, ChLowI>>
\* ```s`kd.Xi
P_b2d ==
  <<ChBackquote, ChBackquote, ChBackquote, ChLowS, ChBackquote, ChLowK,
  ChLowD, ChDot, ChX, ChLowI>>
\* ````s`kd.Xii
P_b2df ==
  <<ChBackquote, ChBackquote, ChBackquote, ChBackquote, ChLowS, ChBackquote,
  ChLowK, ChLowD, ChDot, ChX, ChLowI, ChLowI>>
\* ```si`ki.X
P_t1 ==
  <<ChBackquote, ChBackquote, ChBackquote, ChLowS, ChLowI, ChBackquote,
  ChLowK, ChLowI, ChDot, ChX>>
\* ```s.X`kir
P_c2 ==
  <<ChBackquote, ChBackquote, ChBackquote, ChLowS, ChDot, ChX, ChBackquote,
  ChLowK, ChLowI, ChLowR>>
\* ```si.Xd
P_s2d ==
  <<ChBackquote, ChBackquote, ChBackquote, ChLowS, ChLowI, ChDot, ChX,
  ChLowD>>
\* ````si.Xdi
P_s2df ==
  <<ChBackquote, ChBackquote, ChBackquote, ChBackquote, ChLowS, ChLowI,
  ChDot, ChX, ChLowD, ChLowI>>
\* ``k`@i`?Xi
P_at_q ==
  <<ChBackquote, ChBackquote, ChLowK, ChBackquote, ChAt, ChLowI,
  ChBackquote, ChQues, ChX, ChLowI>>
\* ```k`@i`?Xi.X
P_at_qx ==
  <<ChBackquote, ChBackquote, ChBackquote, ChLowK, ChBackquote, ChAt,
  ChLowI, ChBackquote, ChQues, ChX, ChLowI, ChDot, ChX>>
\* ```k`@i`?\xFFi.X
P_at_q255 ==
  <<ChBackquote, ChBackquote, ChBackquote, ChLowK, ChBackquote, ChAt,
  ChLowI, ChBackquote, ChQues, 255, ChLowI, ChDot, ChX>>
\* ``k`@i``|ii
P_at_pipe ==
  <<ChBackquote, ChBackquote, ChLowK, ChBackquote, ChAt, ChLowI,
  ChBackquote, ChBackquote, ChPipe, ChLowI, ChLowI>>
\* ``?Xi.X
P_q ==
  <<ChBackquote, ChBackquote, ChQues, ChX, ChLowI, ChDot, ChX>>
\* ``?\xFFi.X
P_q255 ==
  <<ChBackquote, ChBackquote, ChQues, 255, ChLowI, ChDot, ChX>>
\* ``|ii
P_pipe ==
  <<ChBackquote, ChBackquote, ChPipe, ChLowI, ChLowI>>
\* ```````iiiiiiii
P_spine7 ==
  <<ChBackquote, ChBackquote, ChBackquote, ChBackquote, ChBackquote,
  ChBackquote, ChBackquote, ChLowI, ChLowI, ChLowI, ChLowI, ChLowI, ChLowI,
  ChLowI, ChLowI>>
\* ```s``si`k.X`kii
P_v2 ==
  <<ChBackquote, ChBackquote, ChBackquote, ChLowS, ChBackquote, ChBackquote,
  ChLowS, ChLowI, ChBackquote, ChLowK, ChDot, ChX, ChBackquote, ChLowK,
  ChLowI, ChLowI>>
\* ````````iiiiiiiii
P_spine8 ==
  <<ChBackquote, ChBackquote, ChBackquote, ChBackquote, ChBackquote,
  ChBackquote, ChBackquote, ChBackquote, ChLowI, ChLowI, ChLowI, ChLowI,
  ChLowI, ChLowI, ChLowI, ChLowI, ChLowI>>
\* `r`d`@i
P_d_at ==
  <<ChBackquote, ChLowR, ChBackquote, ChLowD, ChBackquote, ChAt, ChLowI>>
\* ``d`@ii
P_d_atf ==
  <<ChBackquote, ChBackquote, ChLowD, ChBackquote, ChAt, ChLowI, ChLowI>>
\* ``@i``cir
P_at_cont ==
  <<ChBackquote, ChBackquote, ChAt, ChLowI, ChBackquote, ChBackquote,
  ChLowC, ChLowI, ChLowR>>
\* ```s``s`kski`.Xi
P_major_root ==
  <<ChBackquote, ChBackquote, ChBackquote, ChLowS, ChBackquote, ChBackquote,
  ChLowS, ChBackquote, ChLowK, ChLowS, ChLowK, ChLowI, ChBackquote, ChDot,
  ChX, ChLowI>>
\* `c```dsss
P_major_scan ==
  <<ChBackquote, ChLowC, ChBackquote, ChBackquote, ChBackquote, ChLowD,
  ChLowS, ChLowS, ChLowS>>
\* ```cc``is`dki
P_major_share ==
  <<ChBackquote, ChBackquote, ChBackquote, ChLowC, ChLowC, ChBackquote,
  ChBackquote, ChLowI, ChLowS, ChBackquote, ChLowD, ChLowK, ChLowI>>
\* ```k`ckcs
P_ovf_graph ==
  <<ChBackquote, ChBackquote, ChBackquote, ChLowK, ChBackquote, ChLowC,
  ChLowK, ChLowC, ChLowS>>
\* ```csii
P_ovf_copied ==
  <<ChBackquote, ChBackquote, ChBackquote, ChLowC, ChLowS, ChLowI, ChLowI>>
\* ``cs`cd
P_ovf_d ==
  <<ChBackquote, ChBackquote, ChLowC, ChLowS, ChBackquote, ChLowC, ChLowD>>
\* `.X`c`cs
P_ovf_c ==
  <<ChBackquote, ChDot, ChX, ChBackquote, ChLowC, ChBackquote, ChLowC,
  ChLowS>>
\* ``v`i`c?Xk
P_ovf_ques ==
  <<ChBackquote, ChBackquote, ChLowV, ChBackquote, ChLowI, ChBackquote,
  ChLowC, ChQues, ChX, ChLowK>>
\* ``ci``cs.X
P_cont_twice ==
  <<ChBackquote, ChBackquote, ChLowC, ChLowI, ChBackquote, ChBackquote,
  ChLowC, ChLowS, ChDot, ChX>>
\* `c`c``sii
P_cont_again ==
  <<ChBackquote, ChLowC, ChBackquote, ChLowC, ChBackquote, ChBackquote,
  ChLowS, ChLowI, ChLowI>>
\* ``cc`i`k`s`v`d`e`@`|`ii
P_major_grow ==
  <<ChBackquote, ChBackquote, ChLowC, ChLowC, ChBackquote, ChLowI,
  ChBackquote, ChLowK, ChBackquote, ChLowS, ChBackquote, ChLowV,
  ChBackquote, ChLowD, ChBackquote, ChLowE, ChBackquote, ChAt, ChBackquote,
  ChPipe, ChBackquote, ChLowI, ChLowI>>
\* ``dc`ck
P_promote_scan ==
  <<ChBackquote, ChBackquote, ChLowD, ChLowC, ChBackquote, ChLowC, ChLowK>>
\* ``c`dc`dc
P_mark_reenter ==
  <<ChBackquote, ChBackquote, ChLowC, ChBackquote, ChLowD, ChLowC,
  ChBackquote, ChLowD, ChLowC>>
\* ``ck`cc
P_ovf_chain ==
  <<ChBackquote, ChBackquote, ChLowC, ChLowK, ChBackquote, ChLowC, ChLowC>>

Programs ==
  {P_r_d_Xi, P_force, P_skk, P_cir, P_exit, P_ie, P_v, P_k1, P_b2, P_b2d,
  P_b2df, P_t1, P_c2, P_s2d, P_s2df, P_at_q, P_at_qx, P_at_q255, P_at_pipe,
  P_q, P_q255, P_pipe, P_spine7, P_v2, P_spine8, P_d_at, P_d_atf, P_at_cont,
  P_major_root, P_major_scan, P_major_share, P_ovf_graph, P_ovf_copied,
  P_ovf_d, P_ovf_c, P_ovf_ques, P_cont_twice, P_cont_again, P_major_grow,
  P_promote_scan, P_mark_reenter, P_ovf_chain}

\* PROGRAMS-END

\* What stdin holds when run() starts; a program without @ never reads it.
Inputs == { <<>>, <<ChX>>, <<255>>, <<ChX, ChNewline>> }
ReadsInput(text) == \E i \in 1 .. Len(text) : text[i] = ChAt

\* ------------------------------------------------------- specification
vars ==
  <<heap, young1, young2, old_area, free_list, free_ptr, young_area_end,
    next_young_area, val, task, task_val, next_cont, op, current_ch, pc,
    roots, gi, scan, gc_c, gc_ret, prog, input, output, gc_pre, gc_major,
    gc_cells, young_oob, d1_forced, e_applied, captured, reads, ref, steps>>

\* main(): storage_init(), load_program(), and run() up to its goto eval.
Init ==
  \E text \in Programs, lay \in Layouts :
  \E inp \in (IF ReadsInput(text) THEN Inputs ELSE {<<>>}) :
    LET p == parse(text) IN
    /\ prog = text
    /\ input = inp
    /\ output = <<>>
    /\ young1 = lay[1]
    /\ young2 = lay[2]
    /\ heap = p.s.heap
    /\ free_list = p.s.free_list
    /\ old_area = p.s.old_area
    /\ free_ptr = lay[1]
    /\ young_area_end = lay[1] + YOUNG_SIZE
    /\ next_young_area = lay[2]
    /\ val = p.e
    /\ task = "EXIT"
    /\ task_val = NULL
    /\ next_cont = NULL
    /\ op = NULL
    /\ current_ch = EOF
    /\ pc = IF p.s.status = "ok" THEN "eval" ELSE p.s.status
    /\ roots = <<>>
    /\ gi = 0
    /\ scan = NULL
    /\ gc_c = NULL
    /\ gc_ret = "eval"
    /\ gc_pre = Canon(p.s.heap, <<>>)
    /\ gc_major = {}
    /\ gc_cells = 0
    /\ young_oob = FALSE
    /\ d1_forced = 0
    /\ e_applied = FALSE
    /\ captured = [a \in {} |-> 0]
    /\ reads = <<>>
    /\ ref = RefResult(p, inp)
    /\ steps = 0

Next ==
  \/ DispatchEvalRight \/ DispatchEvalRightS \/ DispatchApply
  \/ DispatchApplyT \/ DispatchExit
  \/ EvalAP \/ EvalValue
  \/ ApplyI \/ ApplyDOT \/ ApplyK1 \/ ApplyK \/ ApplyS2 \/ ApplyB2 \/ ApplyC2
  \/ ApplyV2 \/ ApplyS1 \/ ApplyB1 \/ ApplyT1 \/ ApplyS \/ ApplyV \/ ApplyD1
  \/ ApplyD \/ ApplyCONT \/ ApplyC \/ ApplyE \/ ApplyAT \/ ApplyQUES
  \/ ApplyPIPE
  \/ GcFromEval \/ GcFromApply \/ GcRoot \/ GcScan \/ GcScanR \/ GcReturn
  \/ Abort

Spec == Init /\ [][Next]_vars

\* ------------------------------------------------------------ properties
\* gc_run has just returned exactly when pc is one of its two return points;
\* the registers then hold what the caller read back from roots[].
GcReturned == pc \in {"eval_push", "apply_sw"}
RegRoots ==
  IF pc = "eval_push" THEN <<val, task_val, next_cont>>
  ELSE <<val, task_val, next_cont, op>>

\* The references to cell a held by the roots and by the fields of the cells
\* reachable from them.
RefsTo(h, rts, a) ==
  LET order == ReachSeq(h, rts) IN
  Cardinality({i \in 1 .. Len(rts) : rts[i] = a})
  + Cardinality({i \in 1 .. Len(order) :
                   Len(Children(h, order[i])) >= 1 /\ Children(h, order[i])[1] = a})
  + Cardinality({i \in 1 .. Len(order) :
                   Len(Children(h, order[i])) = 2 /\ Children(h, order[i])[2] = a})

HasSharing(h, rts) ==
  \E i \in 1 .. Len(ReachSeq(h, rts)) : RefsTo(h, rts, ReachSeq(h, rts)[i]) >= 2

\* C1: when gc_run returns, the graph under the roots is isomorphic to the
\* graph that was under them when it was called: null roots are null, cells
\* correspond with equal tag and ch, the children the tag's field set names
\* lead to the corresponding cells, and a shared cell is still one cell.
C1_GraphPreserved == GcReturned => Canon(heap, RegRoots) = gc_pre

\* C1 witness: a gc_run that called major_gc in the middle of its scan has
\* returned, over a graph in which some cell is referenced twice.
C1_Witness ==
  /\ GcReturned
  /\ gc_major \cap {"scan", "scan_r"} # {}
  /\ HasSharing(heap, RegRoots)
  /\ Len(ReachSeq(heap, RegRoots)) >= 4

\* C2: when gc_run returns, no cell reachable from the roots is COPIED, and
\* each root is null or a cell with an expression tag or a frame tag.
C2_NoCopiedReachable ==
  GcReturned =>
    /\ \A i \in 1 .. Len(ReachSeq(heap, RegRoots)) :
         heap[ReachSeq(heap, RegRoots)[i]].t # "COPIED"
    /\ \A i \in 1 .. Len(RegRoots) :
         RegRoots[i] = NULL \/ heap[RegRoots[i]].t \in ExprTags \cup FrameTags

\* C2 witness: gc_run has returned after forwarding cells, some by promotion.
C2_Witness ==
  /\ GcReturned
  /\ \E a \in Addr : heap[a].t = "COPIED" /\ InOld(old_area, heap[a].l)
  /\ \E i \in 1 .. Len(RegRoots) : RegRoots[i] # NULL

\* C3: every young allocation of the evaluator writes inside the active
\* region: free_ptr is below young_area_end before each bump, and so never
\* exceeds it.
C3_YoungAllocInside ==
  /\ ~young_oob
  /\ pc \in {"eval", "eval_push", "dispatch", "apply", "apply_sw", "done"}
       => free_ptr <= young_area_end


Terminal == {"done", "bug", "ub", "oom", "hang", "parse_error"}
InGc == pc \in {"gc_roots", "gc_scan", "gc_scan_r"}
IsPrefix(a, b) == Len(a) <= Len(b) /\ \A i \in 1 .. Len(a) : a[i] = b[i]
Count(sq, x) == Cardinality({i \in 1 .. Len(sq) : sq[i] = x})

\* The programs in which the byte X and the character @ occur only inside an
\* expression that D delays.
DelayedMarkerPrograms ==
  {P_r_d_Xi, P_force, P_b2d, P_b2df, P_s2d, P_s2df, P_d_at, P_d_atf}

\* The dispatch of an application whose operator has evaluated to D.
OperatorIsD ==
  pc = "dispatch" /\ task \in {"EVAL_RIGHT", "EVAL_RIGHT_S"} /\ Tag(Cur, val) = "D"

C4_Step ==
  /\ OperatorIsD =>
       /\ pc' = "apply" /\ op' = val /\ val' = task_val
       /\ heap' = heap /\ output' = output /\ reads' = reads
  /\ Applying("D") =>
       /\ pc' = "dispatch" /\ heap'[val'].t = "D1" /\ heap'[val'].l = val
       /\ output' = output /\ reads' = reads

\* C4: when the operator of an application evaluates to D the operand is not
\* evaluated but wrapped as it is in a D1, and nothing a delayed expression
\* writes or reads happens before a D1 has been applied.
C4_DDelaysOperand ==
  /\ [][C4_Step]_vars
  /\ [](prog \in DelayedMarkerPrograms /\ d1_forced = 0
          => Count(output, ChX) = 0 /\ reads = <<>>)

\* C4 witness: a run has ended with its D1 never applied, and wrote only what
\* lies outside the delayed expression.
C4_Witness ==
  /\ pc = "done" /\ prog \in DelayedMarkerPrograms /\ d1_forced = 0
  /\ Tag(Cur, val) = "D1" /\ heap[heap[val].l].t = "AP"

\* C5, as the specification states it: `r`d`.Xi writes a newline and then X.
C5_NewlineThenX ==
  prog = P_r_d_Xi /\ pc \in Terminal => pc = "done" /\ output = <<ChNewline, ChX>>

\* C5: `r`d`.Xi ends normally having written the newline and nothing else: the
\* D1 that holds `.Xi is the argument of r and is never applied.  The run
\* ends: it takes fewer than MaxSteps steps, is never stuck before its end,
\* and its only end is the normal one.
C5_NewlineOnly ==
  prog = P_r_d_Xi =>
    /\ IsPrefix(output, <<ChNewline>>)
    /\ d1_forced = 0
    /\ steps < MaxSteps
    /\ pc \notin Terminal => ENABLED Next
    /\ pc \in Terminal => pc = "done" /\ output = <<ChNewline>>

\* C5 witness: the run of `r`d`.Xi has ended.
C5_Witness ==
  prog = P_r_d_Xi /\ pc = "done" /\ output = <<ChNewline>> /\ d1_forced = 0

C6_Step ==
  /\ Applying("CONT") =>
       /\ op \in DOMAIN captured
       /\ pc' = "dispatch" /\ val' = val
       /\ task' = captured[op].task
       /\ Canon(heap', <<task_val', next_cont'>>) = captured[op].k
  /\ Applying("C") =>
       /\ pc' = "dispatch" /\ heap'[val'].t = "CONT"
       /\ task' = "APPLY" /\ task_val' = val
  /\ ~InGc /\ pc' \notin {"gc_roots"} =>
       \A a \in DOMAIN captured : Canon(heap', <<a>>) = Canon(heap, <<a>>)

\* C6: applying C to f applies f to a CONT, and each application of that
\* CONT to v, however often, leaves task, task_val and next_cont as they were
\* just before C was applied, up to the addresses of the cells, and val = v;
\* no evaluator step changes what is reachable from a CONT.
C6_ContRestores == [][C6_Step]_vars

\* C6 witness: one CONT has been applied for the second time.
C6_Witness ==
  \E a \in DOMAIN captured : captured[a].n >= 2 /\ pc = "dispatch"

C7_Step ==
  e_applied => pc' = "done" /\ output' = output /\ reads' = reads /\ input' = input

\* C7: once E has been applied the next step is run's return, with nothing
\* written, read or applied in between; without E, run returns only with the
\* continuation chain empty, the initial EXIT task popped back.
C7_EReturns ==
  /\ [][C7_Step]_vars
  /\ [](pc = "done" /\ ~e_applied => task = "EXIT" /\ next_cont = NULL)

\* C7 witness: run has returned through E with frames left on the chain.
C7_Witness == pc = "done" /\ e_applied /\ next_cont # NULL

\* C8: the machine writes and reads what the reference machine writes and
\* reads, and ends as it ends.
C8_SameAsReference ==
  /\ ref.pc = "done" => IsPrefix(output, ref.output) /\ IsPrefix(reads, ref.reads)
  /\ pc \in Terminal \ {"oom"} =>
       pc = ref.pc /\ output = ref.output /\ reads = ref.reads

C9_Step ==
  /\ Applying("QUES") =>
       /\ pc' = "dispatch" /\ task' = "APPLY" /\ task_val' = val
       /\ heap'[val'].t = IF current_ch # EOF /\ current_ch = heap[op].ch
                          THEN "I" ELSE "V"
  /\ Applying("PIPE") =>
       /\ pc' = "dispatch" /\ task' = "APPLY" /\ task_val' = val
       /\ IF current_ch = EOF THEN heap'[val'].t = "V"
          ELSE heap'[val'].t = "DOT" /\ heap'[val'].ch = current_ch
  /\ Applying("AT") =>
       /\ pc' = "dispatch" /\ task' = "APPLY" /\ task_val' = val
       /\ heap'[val'].t = IF input = <<>> THEN "V" ELSE "I"

\* C9: QUES(ch) applies its argument to I exactly when current_ch is a byte
\* equal to ch and to V otherwise, so to V at EOF for every ch; PIPE applies it
\* to V at EOF and otherwise to a DOT of current_ch; AT applies it to I when a
\* byte was read and to V at the end of the input.
C9_EofIsNoByte == [][C9_Step]_vars

\* C9 witness: ?\xFF has been applied at EOF and made a V.
C9_Witness ==
  /\ pc = "dispatch" /\ current_ch = EOF /\ Tag(Cur, val) = "V"
  /\ Tag(Cur, op) = "QUES" /\ heap[op].ch = 255

C10_Step ==
  /\ Applying("AT") =>
       /\ current_ch' = (IF input = <<>> THEN EOF ELSE Head(input))
       /\ input' = (IF input = <<>> THEN input ELSE Tail(input))
       /\ Len(reads') = Len(reads) + 1
  /\ ~Applying("AT") =>
       current_ch' = current_ch /\ input' = input /\ reads' = reads

\* C10: current_ch is EOF until AT is first applied, each application of AT
\* assigns it from one read, and no other step changes it or reads input.
C10_OnlyAtAssigns ==
  /\ [][C10_Step]_vars
  /\ [](reads = <<>> => current_ch = EOF)

\* C10 witness: a CONT has been applied after a byte was read, and current_ch
\* still holds the byte.
C10_Witness ==
  /\ current_ch # EOF /\ pc = "dispatch" /\ Tag(Cur, op) = "CONT"
  /\ \E a \in DOMAIN captured : captured[a].n >= 1


\* ---- the same properties on the runs whose allocations stay in the region
\* C1, C2, C8 while no allocation has been outside the active region, and C4,
\* C6, C9 for the steps that leave it so.
C1_WithinRegion == ~young_oob => C1_GraphPreserved
C2_WithinRegion == ~young_oob => C2_NoCopiedReachable
C4_WithinRegion == [][~young_oob' => C4_Step]_vars
C6_WithinRegion == [][~young_oob' => C6_Step]_vars
C8_WithinRegion == ~young_oob => C8_SameAsReference
C9_WithinRegion == [][~young_oob' => C9_Step]_vars

\* C11: no [BUG] exit is taken: at every dispatch task is a frame tag, at
\* every entry to apply op is a cell with an expression tag other than AP and
\* val is an AP only when op is D, and a scan step never finds COPIED on the
\* cell it reaches after following one forwarding pointer.
C11_NoBugExit ==
  /\ pc # "bug"
  /\ pc = "dispatch" => task \in FrameTags
  /\ AtApply =>
       /\ Tag(Cur, op) \in ExprTags \ {"AP"}
       /\ Tag(Cur, val) = "AP" => Tag(Cur, op) = "D"
  /\ pc = "gc_scan" /\ scan < free_ptr => Tag(Cur, ScanCell) # "COPIED"

\* C11 witness: apply is entered with an unevaluated application as val, under
\* the operator D.
C11_Witness == AtApply /\ Tag(Cur, val) = "AP" /\ Tag(Cur, op) = "D"

C11_WithinRegion == ~young_oob => C11_NoBugExit

\* ---- parse() on every short text
\* The bytes the texts are made of: an application, an atom in either case,
\* a character atom, a comment, white space.
TextBytes == {ChBackquote, ChLowI, Upper(ChLowK), ChDot, ChHash, ChNewline}
MaxText == 5
Texts == UNION {[1 .. n -> TextBytes] : n \in 1 .. MaxText}

\* main() before load_program(): storage_init() has run, nothing is parsed.
\* parse() allocates in the old generation only; the young arrays are placed
\* one after the other.
ParseLayout == <<1, YOUNG_SIZE + 1>>
ParseInit ==
  \E text \in Texts, lay \in {ParseLayout} :
    /\ prog = text
    /\ input = <<>>
    /\ output = <<>>
    /\ young1 = lay[1]
    /\ young2 = lay[2]
    /\ heap = grow(EmptyStore).heap
    /\ free_list = grow(EmptyStore).free_list
    /\ old_area = grow(EmptyStore).old_area
    /\ free_ptr = lay[1]
    /\ young_area_end = lay[1] + YOUNG_SIZE
    /\ next_young_area = lay[2]
    /\ val = NULL
    /\ task = "EXIT"
    /\ task_val = NULL
    /\ next_cont = NULL
    /\ op = NULL
    /\ current_ch = EOF
    /\ pc = "load"
    /\ roots = <<>>
    /\ gi = 0
    /\ scan = NULL
    /\ gc_c = NULL
    /\ gc_ret = "eval"
    /\ gc_pre = Canon(grow(EmptyStore).heap, <<>>)
    /\ gc_major = {}
    /\ gc_cells = 0
    /\ young_oob = FALSE
    /\ d1_forced = 0
    /\ e_applied = FALSE
    /\ captured = [a \in {} |-> 0]
    /\ reads = <<>>
    /\ ref = [pc |-> "load", output |-> <<>>, reads |-> <<>>]
    /\ steps = 0

\* Cell* root = load_program(prog_file): run() starts at root, or parse()
\* has ended the program with an error.
LoadProgram ==
  /\ pc = "load"
  /\ LET p == parse(prog) IN
     /\ heap' = p.s.heap
     /\ free_list' = p.s.free_list
     /\ old_area' = p.s.old_area
     /\ val' = p.e
     /\ pc' = IF p.s.status = "ok" THEN "eval" ELSE p.s.status
  /\ UNCHANGED <<free_ptr, task, task_val, next_cont, op, young_oob, steps, silent>>

ParseNext == LoadProgram
ParseSpec == ParseInit /\ [][ParseNext]_vars

\* The grammar, read by recursive descent.  Blank(ch): white space;
\* SkipBlank: the position of the next byte that is neither white space nor
\* in a comment; Denote: [ok, term, pos] for the expression that starts at
\* or after pos, pos then being the position after it.
Blank(ch) == ch \in {32, 9, 10, 11, 12, 13}

RECURSIVE SkipLine(_, _)
SkipLine(text, pos) ==
  IF pos > Len(text) THEN pos
  ELSE IF text[pos] = ChNewline THEN pos + 1
  ELSE SkipLine(text, pos + 1)

RECURSIVE SkipBlank(_, _)
SkipBlank(text, pos) ==
  IF pos > Len(text) THEN pos
  ELSE IF Blank(text[pos]) THEN SkipBlank(text, pos + 1)
  ELSE IF text[pos] = ChHash THEN SkipBlank(text, SkipLine(text, pos + 1))
  ELSE pos

AtomTag(ch) ==
  CASE ch \in {ChLowI, ChLowI - 32} -> "I"
    [] ch \in {ChLowK, ChLowK - 32} -> "K"
    [] ch \in {ChLowS, ChLowS - 32} -> "S"
    [] ch \in {ChLowV, ChLowV - 32} -> "V"
    [] ch \in {ChLowD, ChLowD - 32} -> "D"
    [] ch \in {ChLowC, ChLowC - 32} -> "C"
    [] ch \in {ChLowE, ChLowE - 32} -> "E"
    [] ch = ChAt -> "AT"
    [] ch = ChPipe -> "PIPE"
    [] OTHER -> "none"

RECURSIVE Denote(_, _)
Denote(text, pos0) ==
  LET pos == SkipBlank(text, pos0)
      No == [ok |-> FALSE, term |-> <<>>, pos |-> pos]
  IN IF pos > Len(text) THEN No
     ELSE IF text[pos] = ChBackquote
     THEN LET f == Denote(text, pos + 1) IN
          IF ~f.ok THEN No
          ELSE LET x == Denote(text, f.pos) IN
               IF ~x.ok THEN No
               ELSE [ok |-> TRUE, term |-> <<"AP", f.term, x.term>>, pos |-> x.pos]
     ELSE IF AtomTag(text[pos]) # "none"
     THEN [ok |-> TRUE, term |-> <<AtomTag(text[pos])>>, pos |-> pos + 1]
     ELSE IF text[pos] \in {ChLowR, ChLowR - 32}
     THEN [ok |-> TRUE, term |-> <<"DOT", ChNewline>>, pos |-> pos + 1]
     ELSE IF text[pos] \in {ChDot, ChQues} /\ pos + 1 <= Len(text)
     THEN [ok |-> TRUE,
           term |-> <<IF text[pos] = ChDot THEN "DOT" ELSE "QUES", text[pos + 1]>>,
           pos |-> pos + 2]
     ELSE No

\* The cells of the parsed tree, and those of them with tag t.
TreeCells == ReachSeq(heap, <<val>>)
TreeCellsOf(t) == {i \in 1 .. Len(TreeCells) : heap[TreeCells[i]].t = t}

\* C12: for a text that starts with a well-formed expression, parse returns
\* the tree the prefix notation denotes: every AP has the first expression
\* after its backquote as l and the second as r, neither null; parse stops,
\* its stack empty, right after the outermost expression; and each of
\* i k s v d c e @ | is the one cell allocated for it at the start of parse.
C12_ParseDenotes ==
  pc # "load" /\ steps = 0 =>
    LET d == Denote(prog, 1) IN
    d.ok =>
      /\ pc = "eval"
      /\ TermOf(heap, val) = d.term
      /\ \A i \in TreeCellsOf("AP") :
           heap[TreeCells[i]].l # NULL /\ heap[TreeCells[i]].r # NULL
      /\ LET p == parse(prog) IN
         /\ p.stack = NULL /\ p.pos = d.pos
         /\ \A k \in 1 .. Len(PreTags) : \A i \in TreeCellsOf(PreTags[k]) :
              TreeCells[i] = p.pre[k]

\* C12 witness: a text with a comment and an upper-case atom has been parsed
\* into a tree in which one shared atom occurs twice.
C12_Witness ==
  /\ pc = "eval" /\ steps = 0
  /\ \E i \in 1 .. Len(prog) : prog[i] = ChHash
  /\ \E i \in 1 .. Len(prog) : prog[i] = Upper(ChLowK)
  /\ Cardinality(TreeCellsOf("AP")) >= 1
  /\ Count(prog, Upper(ChLowK)) >= 2 /\ Cardinality(TreeCellsOf("K")) = 1

\* ---- ageing
\* The registers that are live: op is live from the entry to apply up to its
\* switch.
LiveRoots ==
  IF pc \in {"apply", "apply_sw"}
  THEN <<val, task_val, next_cont, op>>
  ELSE <<val, task_val, next_cont>>
LiveCells == ReachSeq(heap, LiveRoots)

\* The cell the next step of gc_run hands to copy_cell (NULL: none).
CopySrc ==
  IF pc = "gc_roots" /\ gi < Len(roots) THEN roots[gi + 1]
  ELSE IF pc = "gc_scan" /\ scan < free_ptr
          /\ Tag(Cur, ScanCell) \in UnaryTags \cup BinaryTags
  THEN heap[ScanCell].l
  ELSE IF pc = "gc_scan_r" THEN heap[gc_c].r
  ELSE NULL

\* What copy_cell returned in the step just taken.
CopyDst ==
  IF pc = "gc_roots" THEN roots'[gi + 1]
  ELSE IF pc = "gc_scan" THEN heap'[ScanCell].l
  ELSE heap'[gc_c].r

InToSpace(a) == a >= young_area_end - YOUNG_SIZE /\ a < young_area_end

C13_Step ==
  CopySrc # NULL /\ heap[CopySrc].t # "COPIED" /\ pc' \in {"gc_roots", "gc_scan", "gc_scan_r"} =>
    LET c == CopySrc
        r == CopyDst
    IN IF heap[c].age > AGE_MAX
       THEN r = c /\ heap'[c] = heap[c]
       ELSE /\ r # c
            /\ heap'[c].t = "COPIED" /\ heap'[c].l = r
            /\ heap'[r].t = heap[c].t /\ heap'[r].age = heap[c].age + 1
            /\ IF heap[c].age = AGE_MAX THEN InOld(old_area', r) ELSE InToSpace(r)

\* C13: a cell the evaluator allocates has age 0; each collection that copies
\* it adds one to its age, inside young space while the age was below AGE_MAX
\* and into the old generation when it was AGE_MAX, so it is promoted at its
\* third collection; a cell older than AGE_MAX is returned as it is.  Hence
\* the live cells in young space have age at most AGE_MAX and those in the
\* old generation have age AGE_MAX + 1.
C13_Ageing ==
  /\ [][C13_Step]_vars
  /\ [](~InGc /\ pc \notin {"load"} =>
          \A i \in 1 .. Len(LiveCells) :
            IF InOld(old_area, LiveCells[i])
            THEN heap[LiveCells[i]].age = AGE_MAX + 1
            ELSE heap[LiveCells[i]].age <= AGE_MAX)
  /\ [][\A a \in Addr : a >= free_ptr /\ a < free_ptr' /\ ~InGc /\ pc' \notin {"gc_roots"}
          => heap'[a].age = 0]_vars

\* C13 witness: a frame the evaluator pushed is live in the old generation.
C13_Witness ==
  /\ ~InGc
  /\ \E i \in 1 .. Len(LiveCells) :
       /\ InOld(old_area, LiveCells[i])
       /\ heap[LiveCells[i]].t \in FrameTags
       /\ heap[LiveCells[i]].age = AGE_MAX + 1

C13_WithinRegion ==
  /\ [][~young_oob' => C13_Step]_vars
  /\ [](~young_oob /\ ~InGc /\ pc \notin {"load"} =>
          \A i \in 1 .. Len(LiveCells) :
            IF InOld(old_area, LiveCells[i])
            THEN heap[LiveCells[i]].age = AGE_MAX + 1
            ELSE heap[LiveCells[i]].age <= AGE_MAX)


\* ---- dispatch of EVAL_RIGHT with an operator other than D
EvalRightStep ==
  /\ pc = "dispatch" /\ task = "EVAL_RIGHT" /\ val # NULL
  /\ heap[val].t # "D"
  /\ pc' # pc

\* The statement with a pushed frame: the step conses onto next_cont a young
\* cell saving task and task_val, then sets task to APPLY and task_val to
\* the operator.
C14_PushesFrame ==
  [][EvalRightStep =>
       /\ free_ptr' = free_ptr + 1
       /\ next_cont' = free_ptr
       /\ heap'[next_cont'] = [heap[next_cont'] EXCEPT !.t = task, !.l = next_cont, !.r = task_val, !.age = 0]
       /\ task' = "APPLY" /\ task_val' = val]_vars

\* C14: when dispatch handles EVAL_RIGHT and val is not D, the frame held in
\* the registers is rewritten in place: task becomes APPLY, task_val the
\* operator value and val the operand, and control goes to eval; next_cont
\* and the heap stay as they are, so the chain keeps its length and no cell
\* is allocated.
C14_RewritesFrame ==
  [][EvalRightStep =>
       /\ task' = "APPLY" /\ task_val' = val /\ val' = task_val
       /\ pc' = "eval"
       /\ next_cont' = next_cont
       /\ heap' = heap /\ free_ptr' = free_ptr /\ free_list' = free_list
       /\ young_oob' = young_oob]_vars

\* C14 witness: the operand is about to be evaluated under an APPLY frame
\* that holds an operator other than D, above a non-empty chain.
C14_Witness ==
  /\ pc = "eval" /\ task = "APPLY"
  /\ task_val # NULL /\ heap[task_val].t # "D"
  /\ next_cont # NULL


\* ---- the free list and what the collector's roots reach
\* The cells threaded on a free list.
RECURSIVE FreeCells(_, _, _)
FreeCells(h, a, seen) ==
  IF a = NULL \/ a \in seen THEN seen
  ELSE FreeCells(h, h[a].l, seen \cup {a})

\* The cells reachable from rts through the fields a tag names and through
\* the forwarding pointer of a COPIED cell.
FwdChildren(h, a) ==
  IF h[a].t = "COPIED" THEN <<h[a].l>> ELSE Children(h, a)

RECURSIVE FwdDiscover(_, _, _)
FwdDiscover(h, order, i) ==
  IF i > Len(order) THEN order
  ELSE FwdDiscover(h, AddNew(order, FwdChildren(h, order[i])), i + 1)

\* The roots of the moment: inside gc_run the roots[] it was given, partly
\* updated; in the evaluator the four cell registers of run().
RootsNow == IF InGc THEN roots ELSE <<val, task_val, next_cont, op>>
ReachNow == FwdDiscover(heap, AddNew(<<>>, RootsNow), 1)
OnFreeList == FreeCells(heap, free_list, {})

\* C15: no cell reachable from the roots (through COPIED forwarding pointers
\* too) is on free_list: at every point of a collection, also after a major
\* collection run from the root loop or from the middle of the scan, and in
\* the evaluator for the cells reachable from val, task_val, next_cont or op.
C15_NoReachableFreed ==
  pc \notin {"load"} => \A i \in 1 .. Len(ReachNow) : ReachNow[i] \notin OnFreeList

\* C15 witness: a major collection ran in the middle of the scan of this
\* gc_run, put cells on free_list and left live cells in the old generation.
C15_Witness ==
  /\ InGc /\ gc_major \cap {"scan", "scan_r"} # {}
  /\ \E a \in OnFreeList : heap[a].age = AGE_MAX + 1
  /\ \E i \in 1 .. Len(ReachNow) : InOld(old_area, ReachNow[i])

C15_WithinRegion == ~young_oob => C15_NoReachableFreed


\* ---- major collections
\* The next step of gc_run starts with if (!free_list) major_gc(roots, nroot)
\* and free_list is empty.
MajorDue ==
  /\ free_list = NULL
  /\ \/ pc = "gc_roots" /\ gi < Len(roots)
     \/ pc = "gc_scan" /\ scan < free_ptr /\ Tag(Cur, ScanCell) \notin {"NULL", "COPIED"}
     \/ pc = "gc_scan_r"

\* The store as that major_gc leaves it.
MajorResult == major_gc(Cur, roots)

\* C16: when major_gc returns, the cells on free_list are at least one fifth
\* (integer division) of the cells of the old generation, grown chunks
\* included, and free_list is not empty.
C16_FreeFifth ==
  MajorDue /\ MajorResult.status = "ok" =>
    /\ 5 * Cardinality(FreeCells(MajorResult.heap, MajorResult.free_list, {}))
         >= MajorResult.old_area * HEAP_CHUNK_SIZE
            - ((MajorResult.old_area * HEAP_CHUNK_SIZE) % 5)
    /\ MajorResult.free_list # NULL

\* C16 witness: a major collection whose sweep frees less than a fifth of the
\* old cells, so that it returns after growing the heap.
C16_Witness ==
  /\ MajorDue /\ MajorResult.status = "ok"
  /\ MajorResult.old_area > old_area
  /\ \E i \in 1 .. Len(ReachNow) : InOld(old_area, ReachNow[i])


\* ---- promotion
\* The next step of gc_run calls copy_cell (after its look at free_list).
CopyDue ==
  \/ pc = "gc_roots" /\ gi < Len(roots)
  \/ pc = "gc_scan" /\ scan < free_ptr /\ Tag(Cur, ScanCell) \notin {"NULL", "COPIED"}
  \/ pc = "gc_scan_r"

\* That copy_cell call promotes: its argument is a cell of age AGE_MAX.
PromoteDue ==
  /\ CopyDue /\ CopySrc # NULL
  /\ heap[CopySrc].t # "COPIED" /\ heap[CopySrc].age = AGE_MAX

\* C17: before every copy_cell call of gc_run, in the root loop, at the top
\* of a scan step and between the copy of l and the copy of r, free_list is
\* not empty once the look at free_list has run; so a copy_cell that
\* promotes never takes a cell off an empty free_list.
C17_PromotionHasCell ==
  /\ CopyDue /\ MajorIfEmpty(Cur, roots).status = "ok" =>
       MajorIfEmpty(Cur, roots).free_list # NULL
  /\ PromoteDue /\ MajorIfEmpty(Cur, roots).status = "ok" =>
       copy_cell(MajorIfEmpty(Cur, roots), CopySrc).g.status = "ok"

\* C17 witness: free_list is empty when gc_run is about to promote a cell, in
\* the middle of a scan step.
C17_Witness ==
  /\ PromoteDue /\ free_list = NULL /\ pc = "gc_scan_r"
  /\ MajorIfEmpty(Cur, roots).status = "ok"


\* ---- generations
\* The evaluator is running or has finished: no collection is under way and
\* the run has not been ended by an error.
Between == ~InGc /\ pc \notin {"load", "bug", "ub", "oom", "hang", "parse_error"}
IsYoung(a) == InYoung(young1, a) \/ InYoung(young2, a)
Kids(a) == {Children(heap, a)[k] : k \in 1 .. Len(Children(heap, a))} \ {NULL}

\* C18: between collections no cell of the old generation has, in the fields
\* its tag names, a pointer to a young cell; every child of a live cell is at
\* least as old as the cell; and when gc_run returns no cell reachable from
\* the roots lies in the young region that was active before the call.
C18_OldNeverPointsToYoung ==
  Between =>
    /\ \A a \in Addr : InOld(old_area, a) /\ heap[a].age > AGE_MAX =>
         \A b \in Kids(a) : ~IsYoung(b)
    /\ \A i \in 1 .. Len(LiveCells) : \A b \in Kids(LiveCells[i]) :
         heap[b].age >= heap[LiveCells[i]].age
    /\ GcReturned =>
         \A i \in 1 .. Len(LiveCells) : ~InYoung(next_young_area, LiveCells[i])

\* C18 witness: gc_run has returned with a promoted frame that has a child
\* and with a young cell that has a young child.
C18_Witness ==
  /\ GcReturned
  /\ \E i \in 1 .. Len(LiveCells) :
       /\ InOld(old_area, LiveCells[i])
       /\ heap[LiveCells[i]].t \in FrameTags
       /\ Kids(LiveCells[i]) # {}
  /\ \E i \in 1 .. Len(LiveCells) :
       /\ IsYoung(LiveCells[i])
       /\ \E b \in Kids(LiveCells[i]) : IsYoung(b)

C18_WithinRegion == ~young_oob => C18_OldNeverPointsToYoung


\* ---- the continuation chain
\* The cells the machine can reach: inside gc_run from roots[], through
\* forwarding pointers too; in the evaluator from the live registers.
ChainCells == IF InGc THEN ReachNow ELSE LiveCells
ChainHead == IF InGc THEN roots[3] ELSE next_cont

\* C19: while task is not EXIT next_cont is not null; a reachable frame whose
\* tag is not EXIT has a non-null l; the l of a reachable CONT cell is a
\* continuation frame, never null; so neither a dispatch nor the application
\* of a CONT reads through a null frame.
C19_ChainNeverEmpty ==
  pc \notin {"load"} =>
    /\ task # "EXIT" => ChainHead # NULL
    /\ \A i \in 1 .. Len(ChainCells) :
         LET a == ChainCells[i] IN
         /\ heap[a].t \in FrameTags \ {"EXIT"} => heap[a].l # NULL
         /\ heap[a].t = "CONT" =>
              /\ heap[a].l # NULL
              /\ Tag(Cur, Fwd(heap[a].l)) \in FrameTags
    /\ Applying("CONT") => heap[op].l # NULL
    /\ pc = "dispatch" /\ task \in FrameTags \ {"EXIT"} => next_cont # NULL

\* C19 witness: a CONT captured with only the EXIT frame under it is being
\* applied.
C19_Witness ==
  /\ Applying("CONT")
  /\ Tag(Cur, heap[op].l) = "EXIT"
  /\ next_cont # heap[op].l

C19_WithinRegion == ~young_oob => C19_ChainNeverEmpty


\* ---- termination of a collection
\* The mark of the major_gc call that is due.
MarkRun == mark(heap, roots)

\* What is left of a gc_run: roots to copy, cells to scan (two steps each at
\* most), counted against the cells the previous region held.
ToBase == young_area_end - YOUNG_SIZE
GcMeasure ==
  (Len(roots) - gi) + 2 * (ToBase + gc_cells - scan)
    - (IF pc = "gc_scan_r" THEN 1 ELSE 0)

\* A step of gc_run is possible: a copy_cell call, or the return once scan
\* has reached free_ptr.
GcCanStep == CopyDue \/ (pc = "gc_scan" /\ scan >= free_ptr)

\* A step taken inside gc_run leads to gc_run again or to its return (or to
\* the exit of grow() for want of memory), and lowers GcMeasure.
C20_Step ==
  InGc =>
    /\ pc' \in {"gc_roots", "gc_scan", "gc_scan_r", gc_ret, "oom"}
    /\ pc' \in {"gc_roots", "gc_scan", "gc_scan_r"} => GcMeasure' < GcMeasure

C20_Bounded ==
  /\ InGc => /\ scan <= free_ptr
             /\ free_ptr - ToBase <= gc_cells
             /\ GcMeasure >= 0
             /\ GcCanStep
  /\ MajorDue => /\ MarkRun.done
                 /\ MajorResult.status \in {"ok", "oom"}

\* C20: every collection comes to its end and returns to the evaluator.
\* Inside gc_run a step is always possible, it leads to gc_run again or to
\* its return, and it lowers GcMeasure, which is never negative: scan stays
\* at or below free_ptr, and to-space holds at most as many cells as the
\* previous region held.  Every major_gc comes to its end: mark empties its
\* stack, through forwarding pointers to marked cells too, and the grow loop
\* stops.
C20_GcTerminates == []C20_Bounded /\ [][C20_Step]_vars

\* C20 witness: gc_run is about to call major_gc in the middle of its scan,
\* and the mark will meet a marked cell behind a forwarding pointer.
C20_Witness ==
  /\ InGc /\ MajorDue /\ pc # "gc_roots"
  /\ MarkRun.done /\ MarkRun.re > 0

C20_WithinRegion ==
  [](~young_oob => C20_Bounded) /\ [][~young_oob' => C20_Step]_vars

====
